---------------------------- MODULE Spec2Model ----------------------------
(***************************************************************************)
(* Model of src/server.js: the Ellerslie School AI backend.                *)
(*                                                                         *)
(* State: the start-up sequence (initDb, then listen), the relational      *)
(* store (which tables exist, the rows of users/chats/messages, the        *)
(* SERIAL sequence of users.id), the signing secret taken from the         *)
(* environment, the wall clock, and the log of HTTP requests, each with    *)
(* its handler's position and local variables.                             *)
(*                                                                         *)
(* An async handler is split at its awaits: the synchronous prefix runs    *)
(* in the step that receives the request, each await resumes in a later    *)
(* step, so handlers of different requests interleave exactly where the    *)
(* event loop lets them.                                                   *)
(*                                                                         *)
(* Environment: the database executes every statement it is sent once the  *)
(* server is serving; a statement fails when its relation does not exist   *)
(* or a constraint rejects it.  During start-up each CREATE TABLE may      *)
(* fail (database unreachable).  The model API call either returns a       *)
(* content-block array or throws.                                          *)
(***************************************************************************)
EXTENDS Integers, Sequences, FiniteSets, TLC

\* ------------------------------------------------------------ bounds
MaxReqs == 3
MaxTime == 1

\* ------------------------------------------------------------ values
Undefined == "undefined"

\* JavaScript's !v for the values a JSON string field can take here.
Falsy(v) == v \in {Undefined, ""}

Names == {"Ada"}
Emails == {"ada@x.com", "bob@x.com"}
Passwords == {"secret123", "wrong"}
SignupPasswords == {"secret123"}
Salts == {"saltA"}
ChatMessages == {"What is 2+2?"}

BcryptCost == 10
DevSecret == "dev_secret_key"
FallbackReply == "Could not understand response"

\* ------------------------------------------------------------ state
VARIABLES
    startPc,       \* position of start()/initDb()
    stmts,         \* the CREATE TABLE statements issued so far, with outcome
    errLog,        \* console.error lines
    tables,        \* relations that exist in the database
    users,         \* rows of users
    usersSeq,      \* last value of the users.id SERIAL sequence
    chats,         \* rows of chats
    messages,      \* rows of messages
    jwtSecretEnv,  \* process.env.JWT_SECRET
    now,           \* wall clock, seconds
    reqs           \* requests in arrival order, with handler state

vars == <<startPc, stmts, errLog, tables, users, usersSeq, chats, messages,
          jwtSecretEnv, now, reqs>>

dbVars == <<tables, users, usersSeq, chats, messages>>
bootVars == <<startPc, stmts, errLog>>

\* ------------------------------------------------------------ bcrypt
\* bcrypt.hash(password, cost) with the salt the library drew: the stored
\* string carries the cost and the salt next to the digest.
BcryptHash(password, cost, salt) ==
    [cost |-> cost, salt |-> salt, digest |-> <<cost, salt, password>>]

NoHash == [cost |-> 0, salt |-> "", digest |-> <<>>]

BcryptComparePlain(password, hash) == hash.digest = <<password>>
\* bcrypt.compare(password, hash): re-hash with the stored cost and salt.
BcryptCompare(password, hash) ==
    BcryptHash(password, hash.cost, hash.salt) = hash

\* ------------------------------------------------------------ jwt
\* process.env.JWT_SECRET || 'dev_secret_key'
Secret == IF Falsy(jwtSecretEnv) THEN DevSecret ELSE jwtSecretEnv

\* A header word: plain text, or a compact JWT (payload and the key its
\* signature was made with).
Text(s) == [jwt |-> FALSE, text |-> s]
Jwt(payload, key) == [jwt |-> TRUE, payload |-> payload, key |-> key]

JwtSignExpiring(claims, key) ==
    Jwt([userId |-> claims.userId, email |-> claims.email,
         iat |-> now, exp |-> now + 1], key)
\* jwt.sign(claims, key) with no options: adds iat, sets no exp.
JwtSign(claims, key) ==
    Jwt([userId |-> claims.userId, email |-> claims.email, iat |-> now], key)

\* jwt.verify(token, key) does not throw: token is a string that parses as
\* a JWT, its signature verifies under key, and an exp claim, when the
\* payload has one, lies in the future.
JwtVerifies(tokenOpt, key) ==
    /\ Len(tokenOpt) = 1
    /\ tokenOpt[1].jwt
    /\ tokenOpt[1].key = key
    /\ ("exp" \in DOMAIN tokenOpt[1].payload => now < tokenOpt[1].payload.exp)

\* ------------------------------------------------------------ responses
Res(status, body) == [status |-> status, body |-> body]
NoRes == Res(0, [pending |-> TRUE])
Err(status, msg) == Res(status, [error |-> msg])
PublicUser(row) == [id |-> row.id, name |-> row.name, email |-> row.email]

NoBody == [name |-> Undefined, email |-> Undefined, password |-> Undefined,
           message |-> Undefined]

\* A request as it arrives.  auth and body are what the client sent; pc and
\* res are the handler's position and its response; hash, rows, match, user
\* and upstream are the handler's locals (hash, result.rows, match, req.user,
\* the settled client.messages.create promise); ran says the route handler
\* was entered, calls counts client.messages.create calls, and before is the
\* set of requests already answered when this one arrived.
NewReq(kind, auth, body) ==
    [kind |-> kind, auth |-> auth, body |-> body, pc |-> "start",
     res |-> NoRes, hash |-> NoHash, rows |-> <<>>, match |-> "unset",
     user |-> <<>>, ran |-> FALSE, calls |-> 0, upstream |-> <<>>,
     before |-> {i \in 1..Len(reqs) : reqs[i].pc = "done"}]

Send(r, res) == [r EXCEPT !.pc = "done", !.res = res]


Set(i, r) == reqs' = [reqs EXCEPT ![i] = r]

InFlight(i, kind, pc) ==
    /\ i \in 1..Len(reqs)
    /\ reqs[i].kind = kind
    /\ reqs[i].pc = pc

Accepting == startPc = "serving" /\ Len(reqs) < MaxReqs

\* ------------------------------------------------------------ start-up
Init ==
    /\ startPc = "initDb"
    /\ stmts = <<>>
    /\ errLog = <<>>
    /\ tables = {}
    /\ users = {}
    /\ usersSeq = 0
    /\ chats = {}
    /\ messages = {}
    /\ jwtSecretEnv \in {Undefined, "prod_secret"}
    /\ now = 0
    /\ reqs = <<>>

\* The order in which initDb awaits its CREATE TABLE IF NOT EXISTS queries.
InitDbOrder == <<"users", "chats", "messages">>

InitDbRethrow(table) ==
    /\ errLog' = Append(errLog, "Startup error")
    /\ startPc' = "exited"
\* catch (err) { console.error('Database init error:', err.message) }:
\* initDb returns normally, start() goes on to app.listen.
InitDbCatch(table) ==
    /\ errLog' = Append(errLog, "Database init error")
    /\ startPc' = "listen"

\* await pool.query(CREATE TABLE IF NOT EXISTS ...) resolves.
InitDbCreated ==
    /\ startPc = "initDb"
    /\ LET table == InitDbOrder[Len(stmts) + 1] IN
        /\ stmts' = Append(stmts, [table |-> table, ok |-> TRUE])
        /\ tables' = tables \cup {table}
        /\ startPc' = IF Len(stmts) + 1 = Len(InitDbOrder) THEN "listen" ELSE "initDb"
    /\ UNCHANGED <<errLog, users, usersSeq, chats, messages, jwtSecretEnv, now, reqs>>

\* await pool.query(CREATE TABLE IF NOT EXISTS ...) rejects.
InitDbFailed ==
    /\ startPc = "initDb"
    /\ LET table == InitDbOrder[Len(stmts) + 1] IN
        /\ stmts' = Append(stmts, [table |-> table, ok |-> FALSE])
        /\ InitDbCatch(table)
    /\ UNCHANGED <<dbVars, jwtSecretEnv, now, reqs>>

\* app.listen(port, ...)
Listen ==
    /\ startPc = "listen"
    /\ startPc' = "serving"
    /\ UNCHANGED <<stmts, errLog, dbVars, jwtSecretEnv, now, reqs>>

\* The clock advances.
Tick ==
    /\ now < MaxTime
    /\ now' = now + 1
    /\ UNCHANGED <<bootVars, dbVars, jwtSecretEnv, reqs>>

\* ------------------------------------------------------------ signup
SignupBodies ==
    {[NoBody EXCEPT !.name = n, !.email = e, !.password = p] :
        n \in Names, e \in Emails, p \in SignupPasswords}
    \cup {[NoBody EXCEPT !.email = "ada@x.com", !.password = "secret123"],
          [NoBody EXCEPT !.name = "Ada", !.password = "secret123"],
          [NoBody EXCEPT !.name = "Ada", !.email = "ada@x.com", !.password = ""]}

\* Lines 79-83: the presence check, up to the first await.
SignupValidate(r) ==
    IF Falsy(r.body.name) \/ Falsy(r.body.email) \/ Falsy(r.body.password)
    THEN Send(r, Err(400, "Missing required fields"))
    ELSE [r EXCEPT !.pc = "hash"]

Signup ==
    /\ Accepting
    /\ \E body \in SignupBodies :
        reqs' = Append(reqs, SignupValidate(NewReq("signup", <<>>, body)))
    /\ UNCHANGED <<bootVars, dbVars, jwtSecretEnv, now>>

\* Line 85: await bcrypt.hash(password, 10) resolves.
SignupHash(i) ==
    /\ InFlight(i, "signup", "hash")
    /\ \E salt \in Salts :
        Set(i, [reqs[i] EXCEPT
                    !.hash = BcryptHash(reqs[i].body.password, BcryptCost, salt),
                    !.pc = "insert"])
    /\ UNCHANGED <<bootVars, dbVars, jwtSecretEnv, now>>

NoUniqueConstraint(email) == FALSE
\* email VARCHAR(255) NOT NULL UNIQUE: the insert raises 23505.
UniqueViolation(email) == \E row \in users : row.email = email

\* The row RETURNING id, name, email gives back for the insert.
NewRow(r) ==
    [id |-> usersSeq + 1, name |-> r.body.name, email |-> r.body.email,
     password |-> r.hash]

UsersAfterUpsert(r) ==
    IF "users" \notin tables THEN users
    ELSE {row \in users : row.email # r.body.email} \cup {NewRow(r)}
\* The users table after INSERT INTO users (name, email, password).
UsersAfterInsert(r) ==
    IF "users" \notin tables \/ UniqueViolation(r.body.email) THEN users
    ELSE users \cup {NewRow(r)}

\* Lines 91-104: what the handler sends once the insert has settled.
SignupRespond(r) ==
    IF "users" \notin tables
    THEN Send(r, Err(500, "relation \"users\" does not exist"))
    ELSE IF UniqueViolation(r.body.email)
    THEN Send(r, Err(400, "Email already exists"))
    ELSE LET user == NewRow(r) IN
         Send(r, Res(201, [token |-> JwtSign([userId |-> user.id, email |-> user.email],
                                             Secret),
                           user |-> PublicUser(user)]))

\* Lines 86-104: await pool.query(INSERT ...) settles; the rest of the
\* handler is synchronous.  The id default draws nextval before the unique
\* index is checked, so a rejected insert still consumes an id.
SignupInsert(i) ==
    /\ InFlight(i, "signup", "insert")
    /\ Set(i, SignupRespond(reqs[i]))
    /\ users' = UsersAfterInsert(reqs[i])
    /\ usersSeq' = IF "users" \in tables THEN usersSeq + 1 ELSE usersSeq
    /\ UNCHANGED <<bootVars, tables, chats, messages, jwtSecretEnv, now>>

\* ------------------------------------------------------------ login
LoginBodies ==
    {[NoBody EXCEPT !.email = e, !.password = p] : e \in Emails, p \in Passwords}
    \cup {[NoBody EXCEPT !.password = "secret123"],
          [NoBody EXCEPT !.email = "ada@x.com"]}

\* Lines 109-113.
LoginValidate(r) ==
    IF Falsy(r.body.email) \/ Falsy(r.body.password)
    THEN Send(r, Err(400, "Missing email or password"))
    ELSE [r EXCEPT !.pc = "query"]

Login ==
    /\ Accepting
    /\ \E body \in LoginBodies :
        reqs' = Append(reqs, LoginValidate(NewReq("login", <<>>, body)))
    /\ UNCHANGED <<bootVars, dbVars, jwtSecretEnv, now>>

\* SELECT * FROM users WHERE email = $1, as result.rows.
SelectByEmail(email) ==
    IF \E row \in users : row.email = email
    THEN <<CHOOSE row \in users : row.email = email>>
    ELSE <<>>

UnknownEmailReveals(r) == Send(r, Err(404, "User not found"))
\* Lines 116-118.
UnknownEmail(r) == Send(r, Err(401, "Invalid credentials"))

\* Lines 122-124.
WrongPassword(r) == Send(r, Err(401, "Invalid credentials"))

\* Lines 115-120: await pool.query(SELECT ...) settles.
LoginQuery(i) ==
    /\ InFlight(i, "login", "query")
    /\ LET r == reqs[i]
           rows == SelectByEmail(r.body.email) IN
        Set(i, IF "users" \notin tables
               THEN Send(r, Err(500, "relation \"users\" does not exist"))
               ELSE IF Len(rows) = 0
               THEN UnknownEmail(r)
               ELSE [r EXCEPT !.rows = rows, !.pc = "compare"])
    /\ UNCHANGED <<bootVars, dbVars, jwtSecretEnv, now>>

\* Lines 121-131: await bcrypt.compare(password, user.password) resolves.
LoginCompare(i) ==
    /\ InFlight(i, "login", "compare")
    /\ LET r == reqs[i]
           user == r.rows[1]
           match == BcryptCompare(r.body.password, user.password) IN
        Set(i, IF ~match
               THEN WrongPassword([r EXCEPT !.match = "no"])
               ELSE Send([r EXCEPT !.match = "yes"],
                         Res(200, [token |-> JwtSign([userId |-> user.id,
                                                      email |-> user.email], Secret),
                                   user |-> PublicUser(user)])))
    /\ UNCHANGED <<bootVars, dbVars, jwtSecretEnv, now>>


\* ------------------------------------------------------------ chat
\* Tokens a client can hold: those the server has handed out.
IssuedTokens ==
    {reqs[i].res.body.token :
        i \in {j \in 1..Len(reqs) : reqs[j].kind \in {"signup", "login"}
                                    /\ reqs[j].res.status \in {200, 201}}}

\* A token a client made up: signed with a key of its own choosing.
ForgedToken == Jwt([userId |-> 1, email |-> "ada@x.com", iat |-> 0], "attacker_key")

\* Authorization header values, as the words between single spaces;
\* <<>> is the header being absent.
AuthHeaders ==
    {<<>>, <<Text("")>>, <<Text("Bearer")>>, <<Text("Bearer"), Text("garbage")>>,
     <<Text("Bearer"), ForgedToken>>}
    \cup {<<Text(scheme), token>> : scheme \in {"Bearer", "Basic"}, token \in IssuedTokens}

ChatBodies == {[NoBody EXCEPT !.message = m] : m \in ChatMessages \cup {Undefined, ""}}

\* auth.split(' ')[1], as a sequence of zero or one word.
SecondWord(auth) == IF Len(auth) >= 2 THEN <<auth[2]>> ELSE <<>>

\* !auth: the header is absent or the empty string.
NoAuth(auth) ==
    \/ Len(auth) = 0
    \/ Len(auth) = 1 /\ ~auth[1].jwt /\ auth[1].text = ""

\* verifyToken, lines 63-74: pc "next" stands for next() having been called.
VerifyToken(r) ==
    IF NoAuth(r.auth) THEN Send(r, Err(401, "No token"))
    ELSE LET token == SecondWord(r.auth) IN
         IF JwtVerifies(token, Secret)
         THEN [r EXCEPT !.user = <<token[1].payload>>, !.pc = "next"]
         ELSE Send(r, Err(401, "Invalid token"))

ChatHandlerCallsFirst(r) ==
    IF Falsy(r.body.message)
    THEN Send([r EXCEPT !.ran = TRUE, !.calls = @ + 1], Err(400, "No message provided"))
    ELSE [r EXCEPT !.ran = TRUE, !.pc = "upstream", !.calls = @ + 1]
\* Lines 142-153: the handler up to await client.messages.create(...).
ChatHandler(r) ==
    IF Falsy(r.body.message)
    THEN Send([r EXCEPT !.ran = TRUE], Err(400, "No message provided"))
    ELSE [r EXCEPT !.ran = TRUE, !.pc = "upstream", !.calls = @ + 1]

\* app.post('/api/chat', verifyToken, async (req, res) => ...)
Chat ==
    /\ Accepting
    /\ \E auth \in AuthHeaders, body \in ChatBodies :
        LET r == VerifyToken(NewReq("chat", auth, body)) IN
        reqs' = Append(reqs, IF r.pc = "next" THEN ChatHandler(r) ELSE r)
    /\ UNCHANGED <<bootVars, dbVars, jwtSecretEnv, now>>

TextBlock(t) == [type |-> "text", text |-> t]
ToolUseBlock == [type |-> "tool_use", name |-> "calculator"]

\* response.content arrays the model API can return.
Contents ==
    {<<>>, <<TextBlock("4")>>, <<ToolUseBlock>>, <<ToolUseBlock, TextBlock("4")>>}

UpstreamErrors == {"429 rate_limit_error", "Connection error."}

\* Lines 165-171: content[0] of an empty array is undefined, reading its
\* .type throws a TypeError that the handler's catch turns into a 500.
Reply(content) ==
    IF Len(content) = 0
    THEN Err(500, "Cannot read properties of undefined (reading 'type')")
    ELSE Res(200, [reply |-> IF content[1].type = "text" THEN content[1].text
                             ELSE FallbackReply])

\* await client.messages.create(...) resolves.
ChatUpstreamReturns(i) ==
    /\ InFlight(i, "chat", "upstream")
    /\ \E content \in Contents :
        Set(i, Send([reqs[i] EXCEPT !.upstream = <<[threw |-> FALSE, content |-> content]>>],
                    Reply(content)))
    /\ UNCHANGED <<bootVars, dbVars, jwtSecretEnv, now>>

UpstreamErrorRetried(r, msg) ==
    IF r.calls < 2 THEN [r EXCEPT !.calls = @ + 1] ELSE Send(r, Err(500, msg))
\* Lines 168-171: catch (err) { res.status(500).json({ error: err.message }) }
UpstreamError(r, msg) == Send(r, Err(500, msg))

\* await client.messages.create(...) rejects.
ChatUpstreamThrows(i) ==
    /\ InFlight(i, "chat", "upstream")
    /\ \E msg \in UpstreamErrors :
        Set(i, UpstreamError([reqs[i] EXCEPT !.upstream = <<[threw |-> TRUE, message |-> msg]>>],
                             msg))
    /\ UNCHANGED <<bootVars, dbVars, jwtSecretEnv, now>>

\* ------------------------------------------------------------ health
\* app.get('/health', ...)
Health ==
    /\ Accepting
    /\ reqs' = Append(reqs, Send(NewReq("health", <<>>, NoBody), Res(200, [status |-> "ok"])))
    /\ UNCHANGED <<bootVars, dbVars, jwtSecretEnv, now>>

\* ------------------------------------------------------------ system
Next ==
    \/ InitDbCreated
    \/ InitDbFailed
    \/ Listen
    \/ Tick
    \/ Signup
    \/ \E i \in 1..Len(reqs) : SignupHash(i)
    \/ \E i \in 1..Len(reqs) : SignupInsert(i)
    \/ Login
    \/ \E i \in 1..Len(reqs) : LoginQuery(i)
    \/ \E i \in 1..Len(reqs) : LoginCompare(i)
    \/ Chat
    \/ \E i \in 1..Len(reqs) : ChatUpstreamReturns(i)
    \/ \E i \in 1..Len(reqs) : ChatUpstreamThrows(i)
    \/ Health

Spec == Init /\ [][Next]_vars

\* The database answers each start-up statement and the listen call is made.
FairSpec == Spec /\ WF_vars(InitDbCreated \/ InitDbFailed) /\ WF_vars(Listen)


\* ============================================================ properties
Idx == 1..Len(reqs)
Done(i) == reqs[i].pc = "done"
Status(i) == reqs[i].res.status
Is(i, kind) == reqs[i].kind = kind

\* Request j arrived after request i had been answered.
Later(i, j) == i \in reqs[j].before

\* A signup that was answered 201.
Created(i) == Is(i, "signup") /\ Done(i) /\ Status(i) = 201

\* ------------------------------------------------------------ C1
\* C1: a login that arrives after a signup was answered 201 and carries the
\* same email and password is, once answered, answered 200 with a token
\* whose claims carry that signup's user id and email, whatever other
\* requests came in between.
C1_RoundTrip ==
    \A i \in Idx, j \in Idx :
        ( /\ Created(i)
          /\ Is(j, "login") /\ Done(j) /\ Later(i, j)
          /\ reqs[j].body.email = reqs[i].body.email
          /\ reqs[j].body.password = reqs[i].body.password )
        => /\ Status(j) = 200
           /\ reqs[j].res.body.token.jwt
           /\ reqs[j].res.body.token.key = Secret
           /\ reqs[j].res.body.token.payload.userId = reqs[i].res.body.user.id
           /\ reqs[j].res.body.token.payload.email = reqs[i].body.email

\* A signup, another request, then the matching login, answered 200.
C1_Witness ==
    \E i \in Idx, j \in Idx :
        /\ Created(i)
        /\ Is(j, "login") /\ Done(j) /\ Later(i, j) /\ j > i + 1
        /\ reqs[j].body.email = reqs[i].body.email
        /\ reqs[j].body.password = reqs[i].body.password
        /\ Status(j) = 200

\* ------------------------------------------------------------ C2
\* A signup that got past the presence check and whose insert has settled.
Inserted(i) == Is(i, "signup") /\ Done(i) /\ reqs[i].hash # NoHash

\* C2: among signups with the same email, under any interleaving, at most
\* one is answered 201; once one is, every other whose insert has settled
\* is answered 400 'Email already exists'; users never holds two rows with
\* one email; and the row of the successful signup stays as it was written.
C2_EmailUnique ==
    /\ \A i \in Idx, j \in Idx :
        (i # j /\ Created(i) /\ Inserted(j)
         /\ reqs[j].body.email = reqs[i].body.email)
        => reqs[j].res = Err(400, "Email already exists")
    /\ \A r1 \in users, r2 \in users : r1.email = r2.email => r1 = r2
    /\ \A i \in Idx :
        Created(i) =>
            [id |-> reqs[i].res.body.user.id, name |-> reqs[i].body.name,
             email |-> reqs[i].body.email, password |-> reqs[i].hash] \in users

\* Two signups with one email that were in flight together; one got 201,
\* the other 400.
C2_Witness ==
    \E i \in Idx, j \in Idx :
        /\ i # j /\ Created(i) /\ Inserted(j)
        /\ reqs[j].body.email = reqs[i].body.email
        /\ ~Later(i, j) /\ ~Later(j, i)
        /\ Status(j) = 400

\* ------------------------------------------------------------ C3
\* A login with both fields present whose lookup returned no row.
FailedUnknown(i) ==
    /\ Is(i, "login") /\ Done(i)
    /\ ~Falsy(reqs[i].body.email) /\ ~Falsy(reqs[i].body.password)
    /\ "users" \in tables
    /\ reqs[i].rows = <<>>

\* A login whose password did not match the stored hash.
FailedMismatch(i) == Is(i, "login") /\ Done(i) /\ reqs[i].match = "no"

\* C3: a login that fails for an unknown email and one that fails for a
\* wrong password get the same response, 401 {error: 'Invalid credentials'},
\* which carries no token.
C3_NoExistenceLeak ==
    \A i \in Idx, j \in Idx :
        (FailedUnknown(i) /\ FailedMismatch(j))
        => /\ reqs[i].res = reqs[j].res
           /\ reqs[i].res = Err(401, "Invalid credentials")

C3_Witness == \E i \in Idx, j \in Idx : FailedUnknown(i) /\ FailedMismatch(j)


\* ------------------------------------------------------------ C4
\* The header has the form 'Bearer <token>' with a token that verifies
\* under the server secret.
BearerValid(auth) ==
    /\ Len(auth) = 2
    /\ ~auth[1].jwt /\ auth[1].text = "Bearer"
    /\ JwtVerifies(<<auth[2]>>, Secret)

\* C4: the chat handler runs, and req.user is set, only for a request whose
\* Authorization header is 'Bearer <token>' with a token that verifies; a
\* request without the header is answered 401 'No token', one whose token
\* is malformed, missing or does not verify 401 'Invalid token', neither
\* reaching the handler; and every token of a 201 signup is accepted.
C4_AuthGate ==
    /\ \A i \in Idx :
        Is(i, "chat") =>
            /\ (reqs[i].ran \/ reqs[i].user # <<>>) => BearerValid(reqs[i].auth)
            /\ NoAuth(reqs[i].auth)
                => reqs[i].res = Err(401, "No token") /\ ~reqs[i].ran
            /\ (~NoAuth(reqs[i].auth) /\ ~JwtVerifies(SecondWord(reqs[i].auth), Secret))
                => reqs[i].res = Err(401, "Invalid token") /\ ~reqs[i].ran
    /\ \A i \in Idx :
        Created(i) =>
            VerifyToken(NewReq("chat", <<Text("Bearer"), reqs[i].res.body.token>>,
                               NoBody)).pc = "next"

\* ------------------------------------------------------------ C5
\* C5: a chat request that passed the gate with no or an empty message is
\* answered 400 'No message provided' without any call to the model API;
\* one with neither a valid token nor a message is answered 401.
C5_ValidationFirst ==
    \A i \in Idx :
        (Is(i, "chat") /\ Falsy(reqs[i].body.message))
        => IF reqs[i].user # <<>>
           THEN /\ reqs[i].res = Err(400, "No message provided")
                /\ reqs[i].calls = 0
                /\ reqs[i].upstream = <<>>
           ELSE /\ Status(i) = 401
                /\ reqs[i].calls = 0

\* Both cases: an authenticated request without message, and one without
\* message whose token is missing or invalid.
C5_Witness ==
    \E i \in Idx, j \in Idx :
        /\ Is(i, "chat") /\ Falsy(reqs[i].body.message) /\ reqs[i].user # <<>>
        /\ Status(i) = 400
        /\ Is(j, "chat") /\ Falsy(reqs[j].body.message) /\ reqs[j].user = <<>>
        /\ Status(j) = 401

\* ------------------------------------------------------------ C6
\* The model API call of request i returned a content array.
Returned(i) ==
    /\ Is(i, "chat") /\ Done(i)
    /\ reqs[i].upstream # <<>>
    /\ ~reqs[i].upstream[1].threw

\* C6: whenever the model API call returns, for every content array, the
\* answer is 200 {reply: R}, R being the first block's text when that block
\* is text-typed and the fallback string when it is not.
C6_ReplyExtraction ==
    \A i \in Idx :
        Returned(i) =>
            LET content == reqs[i].upstream[1].content IN
            /\ Status(i) = 200
            /\ Len(content) > 0 =>
                reqs[i].res.body.reply =
                    IF content[1].type = "text" THEN content[1].text ELSE FallbackReply

\* ------------------------------------------------------------ C7
\* The model API call of request i threw.
Threw(i) ==
    /\ Is(i, "chat")
    /\ reqs[i].upstream # <<>>
    /\ reqs[i].upstream[1].threw

InitDbReturned ==
    /\ Len(stmts) > 0
    /\ Len(stmts) = 3 \/ ~stmts[Len(stmts)].ok

C8_Safety ==
    /\ (startPc = "serving" \/ reqs # <<>>) => InitDbReturned
    /\ Len(stmts) <= 3
    /\ \A k \in 1..Len(stmts) :
        /\ stmts[k].table = <<"users", "chats", "messages">>[k]
        /\ k < Len(stmts) => stmts[k].ok
    /\ (\E k \in 1..Len(stmts) : ~stmts[k].ok)
        => errLog = <<"Database init error">>
    /\ startPc # "exited"

\* C8: the server listens only after initDb has finished; the CREATE TABLE
\* statements are issued in the order users, chats, messages, each only
\* after the one before succeeded; a failing statement is logged and
\* swallowed, the process never exits, and the server eventually listens.
C8_Startup == []C8_Safety /\ <>(startPc = "serving")

\* The server is listening although a start-up statement failed.
C8_Witness == startPc = "serving" /\ \E k \in 1..Len(stmts) : ~stmts[k].ok

\* ------------------------------------------------------------ C9
\* C9: every token a signup or login has issued is accepted by the gate in
\* every later state, whatever was signed up, logged in or asked since and
\* however far the clock has moved; and every chat request that presented
\* an issued token was let through.
C9_TokensStayValid ==
    /\ \A t \in IssuedTokens :
        /\ JwtVerifies(<<t>>, Secret)
        /\ VerifyToken(NewReq("chat", <<Text("Bearer"), t>>, NoBody)).pc = "next"
    /\ \A i \in Idx :
        (Is(i, "chat") /\ Len(reqs[i].auth) = 2 /\ reqs[i].auth[2].jwt
         /\ reqs[i].auth[2] \in IssuedTokens)
        => reqs[i].user = <<reqs[i].auth[2].payload>>

\* A signup's token, a later login that issued a second token for the same
\* user, the clock moved on, and a chat request let through with the first.
C9_Witness ==
    \E i \in Idx, j \in Idx, k \in Idx :
        /\ Created(i)
        /\ Is(j, "login") /\ Status(j) = 200 /\ Later(i, j)
        /\ reqs[j].res.body.user.id = reqs[i].res.body.user.id
        /\ Is(k, "chat") /\ Later(j, k)
        /\ reqs[k].auth = <<Text("Bearer"), reqs[i].res.body.token>>
        /\ reqs[k].user # <<>>
        /\ now > reqs[i].res.body.token.payload.iat

\* ------------------------------------------------------------ C10
\* A step that changes users is the insert step of a signup answered 201,
\* and it adds one row, keeping every row there was.
C10_Step ==
    users' # users =>
        /\ users \subseteq users'
        /\ Cardinality(users') = Cardinality(users) + 1
        /\ \E i \in Idx :
            /\ Is(i, "signup") /\ ~Done(i)
            /\ reqs'[i].pc = "done" /\ reqs'[i].res.status = 201

\* A step that answers a signup with 201 adds that user's row.
C10_Created ==
    \A i \in Idx :
        (Is(i, "signup") /\ ~Done(i) /\ reqs'[i].pc = "done"
         /\ reqs'[i].res.status = 201)
        => \E row \in users' \ users : row.id = reqs'[i].res.body.user.id

\* C10: users changes only in the step of a signup answered 201, which adds
\* exactly one row; rejected signups, logins, chat and health requests leave
\* it alone; no row is ever updated or deleted; chats and messages stay
\* empty.
C10_Frame ==
    /\ [][C10_Step /\ C10_Created]_vars
    /\ [](chats = {} /\ messages = {})

\* A user row exists, and a duplicate signup, a login, and a chat request
\* have been answered after it.
C10_Witness ==
    /\ users # {}
    /\ \E i \in Idx, j \in Idx :
        /\ Created(i)
        /\ Inserted(j) /\ Status(j) = 400 /\ Later(i, j)
    /\ \E k \in Idx : Is(k, "login") /\ Done(k) /\ Status(k) \in {200, 401}

=============================================================================
